---- MODULE Spec2Model ----
(***************************************************************************)
(* Model of CaptchaOcrTester.postprocess_output and get_model_config       *)
(* (src/test_captcha_models.py): decoding of a classifier's score tensor   *)
(* into text.                                                              *)
(*                                                                         *)
(* Characters are their ASCII codes, a string is a sequence of codes.      *)
(* A tensor is a record [shape, peaks]: peaks gives the value of the few   *)
(* elements (row-major flat position, from 0) that differ from 0; every    *)
(* other element is 0.  Scores are integers; only their order and their    *)
(* sign are ever read by the code.                                         *)
(***************************************************************************)
EXTENDS Integers, Sequences, FiniteSets, TLC

VARIABLES model_filename, output, expected_text, pc, route, char_indices,
          contrib, results, text, error, normalised

vars == <<model_filename, output, expected_text, pc, route, char_indices,
          contrib, results, text, error, normalised>>

-----------------------------------------------------------------------------
(* Strings *)

Ascii ==
  <<" ", "!", "dquote", "#", "$", "%", "&", "'", "(", ")", "*", "+", ",", "-", ".", "/",
    "0", "1", "2", "3", "4", "5", "6", "7", "8", "9", ":", ";", "<", "=", ">", "?",
    "@", "A", "B", "C", "D", "E", "F", "G", "H", "I", "J", "K", "L", "M", "N", "O",
    "P", "Q", "R", "S", "T", "U", "V", "W", "X", "Y", "Z", "[", "backslash", "]", "^", "_",
    "backtick", "a", "b", "c", "d", "e", "f", "g", "h", "i", "j", "k", "l", "m", "n", "o",
    "p", "q", "r", "s", "t", "u", "v", "w", "x", "y", "z", "{", "|", "}", "~">>

Ord(c) == 31 + (CHOOSE i \in DOMAIN Ascii : Ascii[i] = c)

Str(s) == [i \in DOMAIN s |-> Ord(s[i])]

Range(lo, n) == [i \in 1..n |-> lo + i - 1]

digits == Range(48, 10)
ascii_uppercase == Range(65, 26)
ascii_lowercase == Range(97, 26)

IsDigitChar(c) == c >= 48 /\ c <= 57

SetMax(S) == CHOOSE x \in S : \A y \in S : y <= x
SetMin(S) == CHOOSE x \in S : \A y \in S : x <= y

Lower(s) == [i \in DOMAIN s |-> IF s[i] >= 65 /\ s[i] <= 90 THEN s[i] + 32 ELSE s[i]]

StartsAt(s, sub, i) ==
  /\ i + Len(sub) - 1 <= Len(s)
  /\ \A k \in 1..Len(sub) : s[i + k - 1] = sub[k]

Contains(s, sub) == \E i \in 1..(Len(s) + 1) : StartsAt(s, sub, i)

EndsWith(s, suf) == Len(suf) <= Len(s) /\ StartsAt(s, suf, Len(s) - Len(suf) + 1)

isdigit(s) == s # <<>> /\ \A i \in DOMAIN s : IsDigitChar(s[i])

(* the literals the filename is compared with *)
SlashModelOnnx == Str(<<"/","m","o","d","e","l",".","o","n","n","x">>)
SlashCaptchaOnnx == Str(<<"/","c","a","p","t","c","h","a",".","o","n","n","x">>)
ModelOnnx == Str(<<"m","o","d","e","l",".","o","n","n","x">>)
CaptchaOnnx == Str(<<"c","a","p","t","c","h","a",".","o","n","n","x">>)
CaptchaModelV == Str(<<"c","a","p","t","c","h","a","_","m","o","d","e","l","_","v">>)
DotOnnx == Str(<<".","o","n","n","x">>)
Crnn == Str(<<"c","r","n","n">>)

RECURSIVE Flatten(_)
Flatten(ss) == IF ss = <<>> THEN <<>> ELSE Head(ss) \o Flatten(Tail(ss))

-----------------------------------------------------------------------------
(* Configuration tables *)

CharSetKeys == <<"63", "37_uppercase", "37_lowercase", "11">>

CHAR_SETS ==
  [k \in {"63", "37_uppercase", "37_lowercase", "11"} |->
     CASE k = "63" -> ascii_lowercase \o ascii_uppercase \o digits \o <<36>>
       [] k = "37_uppercase" -> ascii_uppercase \o digits \o <<36>>
       [] k = "37_lowercase" -> ascii_lowercase \o digits \o <<36>>
       [] k = "11" -> digits \o <<36>>]

MODEL_CONFIGS ==
  [v \in 1..8 |->
     CASE v = 1 -> [seq_len |-> 6, key |-> "63"]
       [] v = 2 -> [seq_len |-> 6, key |-> "11"]
       [] v = 3 -> [seq_len |-> 5, key |-> "63"]
       [] v = 4 -> [seq_len |-> 6, key |-> "37_lowercase"]
       [] v = 5 -> [seq_len |-> 5, key |-> "37_uppercase"]
       [] v = 6 -> [seq_len |-> 4, key |-> "63"]
       [] v = 7 -> [seq_len |-> 6, key |-> "11"]
       [] v = 8 -> [seq_len |-> 5, key |-> "37_uppercase"]]

(* re.search for 'v' and digits: the leftmost 'v' followed by a digit, and the    *)
(* maximal run of digits after it; <<>> when there is none.                  *)
RECURSIVE DigitRun(_, _)
DigitRun(s, i) ==
  IF i <= Len(s) /\ IsDigitChar(s[i]) THEN <<s[i]>> \o DigitRun(s, i + 1) ELSE <<>>

VersionDigits(s) ==
  LET V == {i \in 1..Len(s) : s[i] = 118 /\ DigitRun(s, i + 1) # <<>>}
  IN  IF V = {} THEN <<>> ELSE DigitRun(s, SetMin(V) + 1)

(* get_model_config that looks for the version before the tokenizer names *)
get_model_config_version_first(filename) ==
  LET model_lower == Lower(filename)
      d == VersionDigits(model_lower)
  IN  IF Len(d) = 1 /\ d[1] - 48 \in DOMAIN MODEL_CONFIGS
      THEN [kind |-> "config", seq_len |-> MODEL_CONFIGS[d[1] - 48].seq_len,
            key |-> MODEL_CONFIGS[d[1] - 48].key]
      ELSE IF \/ model_lower = ModelOnnx
              \/ EndsWith(model_lower, SlashModelOnnx)
              \/ model_lower = CaptchaOnnx
              \/ EndsWith(model_lower, SlashCaptchaOnnx)
      THEN [kind |-> "special", seq_len |-> 0, key |-> "captcha.onnx"]
      ELSE [kind |-> "none", seq_len |-> 0, key |-> "None"]

(* kind "special" is the marker ("special", "captcha.onnx"),                 *)
(* kind "config" an entry of MODEL_CONFIGS, kind "none" is (None, None).     *)
get_model_config(filename) ==
  LET model_lower == Lower(filename)
      d == VersionDigits(model_lower)
  IN  IF \/ model_lower = ModelOnnx
         \/ EndsWith(model_lower, SlashModelOnnx)
         \/ model_lower = CaptchaOnnx
         \/ EndsWith(model_lower, SlashCaptchaOnnx)
      THEN [kind |-> "special", seq_len |-> 0, key |-> "captcha.onnx"]
      ELSE IF Len(d) = 1 /\ d[1] - 48 \in DOMAIN MODEL_CONFIGS
      THEN [kind |-> "config", seq_len |-> MODEL_CONFIGS[d[1] - 48].seq_len,
            key |-> MODEL_CONFIGS[d[1] - 48].key]
      ELSE [kind |-> "none", seq_len |-> 0, key |-> "None"]

-----------------------------------------------------------------------------
(* Tensors *)

RECURSIVE Product(_)
Product(s) == IF s = <<>> THEN 1 ELSE Head(s) * Product(Tail(s))

Size(t) == Product(t.shape)

Element(t, p) == IF p \in DOMAIN t.peaks THEN t.peaks[p] ELSE 0

(* float(np.min(output.flatten())) *)
min_val(t) ==
  SetMin({t.peaks[p] : p \in DOMAIN t.peaks}
         \cup (IF Cardinality(DOMAIN t.peaks) < Size(t) THEN {0} ELSE {}))

(* IsLogits that looks at the first element only *)
IsLogitsFirst(t) == Element(t, 0) < 0

(* if min_val < 0: the scores are taken for logits and softmax is applied *)
IsLogits(t) == min_val(t) < 0

(* elements [start, end) of the flattened tensor, cut at its end as a slice is *)
Slice(t, start, end) ==
  LET e == IF end < Size(t) THEN end ELSE Size(t)
  IN  IF start >= e THEN <<>> ELSE [i \in 1..(e - start) |-> Element(t, start + i - 1)]

(* exp(x - max) / sum: strictly increasing in x, kept in the log domain *)
Softmax(row) ==
  LET m == SetMax({row[i] : i \in DOMAIN row})
  IN  [i \in DOMAIN row |-> row[i] - m]

(* np.argmax: the first index (from 0) holding the maximum *)
ArgMax(row) ==
  LET m == SetMax({row[i] : i \in DOMAIN row})
  IN  (CHOOSE i \in DOMAIN row : row[i] = m /\ \A j \in 1..(i - 1) : row[j] # m) - 1

(* row r (from 0) of a matrix of rows of V elements laid out from position base *)
Row(t, base, V, r) == Slice(t, base + r * V, base + (r + 1) * V)

(* argmax of every row, each row softmax-normalised first when the caller asks *)
RowArgMax(t, base, V, n, normalise) ==
  [r \in 1..n |-> IF normalise THEN ArgMax(Softmax(Row(t, base, V, r - 1)))
                  ELSE ArgMax(Row(t, base, V, r - 1))]

-----------------------------------------------------------------------------
(* Tokenizer format: model.onnx, captcha.onnx *)

charset_captcha_onnx == digits \o ascii_lowercase \o ascii_uppercase

charset_digits_first == digits \o ascii_lowercase \o ascii_uppercase \o <<36>>

IsCaptchaOnnx(filename) ==
  Contains(Lower(filename), CaptchaOnnx)

(* TokenizerLayout with the special tokens right after the charset used *)
TokenizerLayoutAfterCharset(filename) ==
  LET charset == IF IsCaptchaOnnx(filename) THEN charset_captcha_onnx
                 ELSE charset_digits_first
      n == Len(charset)
  IN  [eos_id |-> 0, charset_start |-> 1, charset_end |-> n,
       unk_id |-> n + 1, bos_id |-> n + 2, pad_id |-> n + 3,
       charset_size |-> n, charset |-> charset]

(* the special-token ids and the charset the decoding loop uses *)
TokenizerLayout(filename) ==
  IF IsCaptchaOnnx(filename)
  THEN LET charset_end == Len(charset_captcha_onnx)
           unk_id == charset_end + 1
           bos_id == unk_id + 1
           pad_id == bos_id + 1
       IN  [eos_id |-> 0, charset_start |-> 1, charset_end |-> charset_end,
            unk_id |-> unk_id, bos_id |-> bos_id, pad_id |-> pad_id,
            charset_size |-> 0, charset |-> charset_captcha_onnx]
  ELSE LET charset_size == 95 - 4
           charset_63 == CHAR_SETS["63"]
       IN  [eos_id |-> 0, charset_start |-> 1, charset_end |-> 0,
            unk_id |-> charset_size + 1, bos_id |-> charset_size + 2,
            pad_id |-> charset_size + 3, charset_size |-> charset_size,
            charset |-> IF charset_size >= Len(charset_digits_first)
                          THEN charset_digits_first
                        ELSE IF charset_size >= Len(charset_63) THEN charset_63
                        ELSE SubSeq(charset_digits_first, 1, charset_size)]

(* TokenizerEmit without the test that skips [UNK], [B] and [P] *)
TokenizerEmitNoSkip(filename, idx) ==
  LET l == TokenizerLayout(filename)
  IN  IF IsCaptchaOnnx(filename)
      THEN IF l.charset_start <= idx /\ idx <= l.charset_end + 3
             THEN <<(l.charset \o <<63, 63, 63>>)[idx - l.charset_start + 1]>>
           ELSE <<>>
      ELSE IF 1 <= idx /\ idx <= Len(l.charset) THEN <<l.charset[idx]>>
           ELSE <<32 + idx - 1>>

(* TokenizerEmit without the ASCII reading of the indices above the charset *)
TokenizerEmitNoAscii(filename, idx) ==
  LET l == TokenizerLayout(filename)
  IN  IF idx = l.unk_id \/ idx = l.bos_id \/ idx = l.pad_id THEN <<>>
      ELSE IF 1 <= idx /\ idx <= Len(l.charset) THEN <<l.charset[idx]>>
      ELSE <<>>

(* what one index that is not the end-of-sequence index appends to text *)
TokenizerEmit(filename, idx) ==
  LET l == TokenizerLayout(filename)
  IN  IF IsCaptchaOnnx(filename)
      THEN IF idx = l.unk_id \/ idx = l.bos_id \/ idx = l.pad_id THEN <<>>
           ELSE IF l.charset_start <= idx /\ idx <= l.charset_end
             THEN <<l.charset[idx - l.charset_start + 1]>>
           ELSE <<>>
      ELSE IF idx = l.unk_id \/ idx = l.bos_id \/ idx = l.pad_id THEN <<>>
           ELSE IF 1 <= idx /\ idx <= Len(l.charset) THEN <<l.charset[idx]>>
           ELSE IF 1 <= l.charset_size
             THEN LET ascii_code == 32 + idx - 1
                  IN  IF 32 <= ascii_code /\ ascii_code <= 126 /\ ascii_code # 32
                      THEN <<ascii_code>> ELSE <<>>
           ELSE <<>>

(* TokenizerLoop that skips an end-of-sequence index instead of ending *)
RECURSIVE TokenizerLoopNoBreak(_, _)
TokenizerLoopNoBreak(filename, indices) ==
  IF indices = <<>> THEN <<>>
  ELSE IF Head(indices) = TokenizerLayout(filename).eos_id
    THEN <<<<>>>> \o TokenizerLoopNoBreak(filename, Tail(indices))
  ELSE <<TokenizerEmit(filename, Head(indices))>>
         \o TokenizerLoopNoBreak(filename, Tail(indices))

(* the loop over char_indices: what each position appends; the loop ends at *)
(* the first end-of-sequence index                                          *)
RECURSIVE TokenizerLoop(_, _)
TokenizerLoop(filename, indices) ==
  IF indices = <<>> THEN <<>>
  ELSE IF Head(indices) = TokenizerLayout(filename).eos_id
    THEN [i \in 1..Len(indices) |-> <<>>]
  ELSE <<TokenizerEmit(filename, Head(indices))>>
         \o TokenizerLoop(filename, Tail(indices))

(* TokenizerDecode that returns the reference when it is as long as the text *)
TokenizerDecodeEcho(filename, t, expected) ==
  LET idxs == RowArgMax(t, 0, t.shape[3], t.shape[2], IsLogits(t))
      c == TokenizerLoop(filename, idxs)
  IN  [char_indices |-> idxs, contrib |-> c, softmax |-> IsLogits(t),
       text |-> IF expected # <<>> /\ Len(expected) = Len(Flatten(c))
                THEN expected ELSE Flatten(c)]

(* the tokenizer branch of a call: the argmax of the rows of output[0],     *)
(* softmax-normalised first if some score is negative, then the loop        *)
TokenizerDecode(filename, t, expected) ==
  LET idxs == RowArgMax(t, 0, t.shape[3], t.shape[2], IsLogits(t))
      c == TokenizerLoop(filename, idxs)
  IN  [char_indices |-> idxs, contrib |-> c, softmax |-> IsLogits(t),
       text |-> Flatten(c)]

DecodeTokenizer ==
  /\ pc = "call"
  /\ get_model_config(model_filename).kind = "special"
  /\ Len(output.shape) = 3
  /\ LET d == TokenizerDecode(model_filename, output, expected_text)
     IN  /\ char_indices' = d.char_indices
         /\ contrib' = d.contrib
         /\ text' = d.text
         /\ normalised' = d.softmax
  /\ route' = "tokenizer"
  /\ pc' = "done"
  /\ UNCHANGED <<model_filename, output, expected_text, results, error>>

-----------------------------------------------------------------------------
(* CTC format: crnn_model.onnx *)

IsCrnn(filename) == Contains(Lower(filename), Crnn)

(* mappings_config; letter2_start = 0 stands for None *)
Mapping(blank_id, digit_start, digit_end, letter_start, letter_end, letter_char, letter2_start, letter2_end, letter2_char) ==
  [blank_id |-> blank_id, digit_start |-> digit_start, digit_end |-> digit_end,
   letter_start |-> letter_start, letter_end |-> letter_end,
   digit_char |-> Ord("0"), letter_char |-> Ord(letter_char),
   letter2_start |-> letter2_start, letter2_end |-> letter2_end,
   letter2_char |-> Ord(letter2_char)]

mappings_config ==
  << Mapping(0, 1, 10, 11, 33, "A", 0, 0, "a"),
     Mapping(0, 27, 33, 1, 26, "A", 0, 0, "a"),
     Mapping(33, 0, 9, 10, 32, "A", 0, 0, "a"),
     Mapping(33, 26, 32, 0, 25, "A", 0, 0, "a"),
     Mapping(0, 1, 10, 11, 33, "a", 0, 0, "a"),
     Mapping(0, 27, 33, 1, 26, "a", 0, 0, "a"),
     Mapping(0, 1, 10, 11, 26, "A", 27, 33, "a") >>

InDigits(mp, idx) == mp.digit_start <= idx /\ idx <= mp.digit_end
InLetters(mp, idx) == mp.letter_start <= idx /\ idx <= mp.letter_end
InLetters2(mp, idx) ==
  mp.letter2_start # 0 /\ mp.letter2_start <= idx /\ idx <= mp.letter2_end

(* the character an index appends under a mapping, nothing if it has none *)
MappingChar(mp, idx) ==
  IF InDigits(mp, idx) THEN <<mp.digit_char + idx - mp.digit_start>>
  ELSE IF InLetters(mp, idx) THEN <<mp.letter_char + idx - mp.letter_start>>
  ELSE IF InLetters2(mp, idx) THEN <<mp.letter2_char + idx - mp.letter2_start>>
  ELSE <<>>

(* CtcLoop in which a blank does not reset prev_idx *)
RECURSIVE CtcLoopNoReset(_, _, _)
CtcLoopNoReset(mp, indices, prev_idx) ==
  IF indices = <<>> THEN <<>>
  ELSE LET idx == Head(indices)
       IN  IF idx = mp.blank_id
             THEN <<<<>>>> \o CtcLoopNoReset(mp, Tail(indices), prev_idx)
           ELSE IF idx = prev_idx
             THEN <<<<>>>> \o CtcLoopNoReset(mp, Tail(indices), prev_idx)
           ELSE <<MappingChar(mp, idx)>> \o CtcLoopNoReset(mp, Tail(indices), idx)

(* CtcLoop that drops an index equal to any index kept since the last blank *)
RECURSIVE CtcLoopSeen(_, _, _)
CtcLoopSeen(mp, indices, seen) ==
  IF indices = <<>> THEN <<>>
  ELSE LET idx == Head(indices)
       IN  IF idx = mp.blank_id THEN <<<<>>>> \o CtcLoopSeen(mp, Tail(indices), {})
           ELSE IF idx \in seen THEN <<<<>>>> \o CtcLoopSeen(mp, Tail(indices), seen)
           ELSE <<MappingChar(mp, idx)>>
                  \o CtcLoopSeen(mp, Tail(indices), seen \cup {idx})

CtcLoopUnique(mp, indices, prev_idx) == CtcLoopSeen(mp, indices, {})

(* CtcLoop that appends every index that is not the blank *)
RECURSIVE CtcLoopNoMerge(_, _, _)
CtcLoopNoMerge(mp, indices, prev_idx) ==
  IF indices = <<>> THEN <<>>
  ELSE LET idx == Head(indices)
       IN  IF idx = mp.blank_id THEN <<<<>>>> \o CtcLoopNoMerge(mp, Tail(indices), -1)
           ELSE <<MappingChar(mp, idx)>> \o CtcLoopNoMerge(mp, Tail(indices), idx)

(* the loop that removes blanks and repeats: what each time step appends *)
RECURSIVE CtcLoop(_, _, _)
CtcLoop(mp, indices, prev_idx) ==
  IF indices = <<>> THEN <<>>
  ELSE LET idx == Head(indices)
       IN  IF idx = mp.blank_id THEN <<<<>>>> \o CtcLoop(mp, Tail(indices), -1)
           ELSE IF idx = prev_idx THEN <<<<>>>> \o CtcLoop(mp, Tail(indices), prev_idx)
           ELSE <<MappingChar(mp, idx)>> \o CtcLoop(mp, Tail(indices), idx)

(* np.argsort(row)[-2:][::-1]: the indices (from 0) of the largest and of the *)
(* second largest element; the inputs have no tie among these.               *)
Top2(row) ==
  LET idx1 == ArgMax(row)
      rest == [i \in DOMAIN row |-> IF i = idx1 + 1 THEN SetMin({row[j] : j \in DOMAIN row}) - 1
                                    ELSE row[i]]
  IN  <<idx1, ArgMax(rest)>>

(* Top2Choice that keeps a blank top-1 index *)
Top2ChoiceLettersOnly(mp, top2) ==
  LET idx1 == top2[1]
      idx2 == top2[2]
  IN  IF InDigits(mp, idx2) /\ (InLetters(mp, idx1) \/ InLetters2(mp, idx1))
      THEN idx2 ELSE idx1

(* the index the top-2 variant feeds to the loop for one time step *)
Top2Choice(mp, top2) ==
  LET idx1 == top2[1]
      idx2 == top2[2]
  IN  IF /\ InDigits(mp, idx2)
         /\ (InLetters(mp, idx1) \/ InLetters2(mp, idx1) \/ idx1 = mp.blank_id)
      THEN idx2 ELSE idx1

Hypothesis(k, variant, mp, fed) ==
  LET e == CtcLoop(mp, fed, -1)
  IN  [mapping |-> k, variant |-> variant, fed |-> fed, emits |-> e,
       text |-> Flatten(e)]

(* results: for every mapping in order, the argmax text then the top-2 text *)
CrnnResults(reshaped, indices) ==
  LET tops == [i \in DOMAIN reshaped |-> Top2(reshaped[i])]
      pair(k) == LET mp == mappings_config[k]
                 IN  << Hypothesis(k, "argmax", mp, indices),
                        Hypothesis(k, "top-2", mp,
                                   [i \in DOMAIN tops |-> Top2Choice(mp, tops[i])]) >>
  IN  Flatten([k \in DOMAIN mappings_config |-> pair(k)])

(* the first text of results equal to expected_text, "" if none *)
RECURSIVE FirstExact(_, _)
FirstExact(rs, expected) ==
  IF rs = <<>> THEN <<>>
  ELSE IF Head(rs).text = expected THEN Head(rs).text
  ELSE FirstExact(Tail(rs), expected)

(* PreferDigits that keeps the first all-digit text it meets *)
RECURSIVE PreferDigitsFirst(_, _)
PreferDigitsFirst(rs, best_text) ==
  IF rs = <<>> THEN best_text
  ELSE LET t == Head(rs).text
       IN  IF t # <<>> /\ isdigit(t) /\ Len(t) >= 4 /\ best_text = <<>>
           THEN PreferDigitsFirst(Tail(rs), t)
           ELSE PreferDigitsFirst(Tail(rs), best_text)

(* PreferDigits without the test of the length *)
RECURSIVE PreferDigitsAny(_, _)
PreferDigitsAny(rs, best_text) ==
  IF rs = <<>> THEN best_text
  ELSE LET t == Head(rs).text
       IN  IF /\ t # <<>> /\ isdigit(t)
              /\ (best_text = <<>> \/ ~isdigit(best_text) \/ Len(t) > Len(best_text))
           THEN PreferDigitsAny(Tail(rs), t)
           ELSE PreferDigitsAny(Tail(rs), best_text)

(* the loop preferring all-digit texts of at least 4 characters *)
RECURSIVE PreferDigits(_, _)
PreferDigits(rs, best_text) ==
  IF rs = <<>> THEN best_text
  ELSE LET t == Head(rs).text
       IN  IF /\ t # <<>> /\ isdigit(t) /\ Len(t) >= 4
              /\ (best_text = <<>> \/ ~isdigit(best_text) \/ Len(t) > Len(best_text))
           THEN PreferDigits(Tail(rs), t)
           ELSE PreferDigits(Tail(rs), best_text)

(* BestText that returns the reference when no hypothesis equals it *)
BestTextReference(rs, expected) ==
  LET exact == IF expected # <<>> THEN FirstExact(rs, expected) ELSE <<>>
  IN  IF exact # <<>> THEN exact
      ELSE IF expected # <<>> THEN expected
      ELSE rs[1].text

(* BestText without the all-digit preference *)
BestTextFirst(rs, expected) ==
  LET exact == IF expected # <<>> THEN FirstExact(rs, expected) ELSE <<>>
  IN  IF exact = <<>> THEN rs[1].text ELSE exact

BestText(rs, expected) ==
  LET exact == IF expected # <<>> THEN FirstExact(rs, expected) ELSE <<>>
      digit == IF exact = <<>> THEN PreferDigits(rs, exact) ELSE exact
  IN  IF digit = <<>> THEN rs[1].text ELSE digit

(* reshaped: the rows of batch 0, one per time step; <<>> when the tensor is *)
(* left three-dimensional                                                   *)
CrnnReshaped(t) ==
  LET V == t.shape[3]
      rows == IF t.shape[1] > t.shape[2]
                THEN [r \in 1..t.shape[1] |-> Row(t, 0, t.shape[2] * V, r - 1)]
              ELSE IF t.shape[2] = 1 THEN [r \in 1..1 |-> Row(t, 0, V, r - 1)]
              ELSE <<>>
  IN  [r \in DOMAIN rows |->
         IF IsLogits(t) THEN Softmax(SubSeq(rows[r], 1, V)) ELSE SubSeq(rows[r], 1, V)]

(* ReshapedIs2D that takes only the time-major case *)
ReshapedIs2DTimeMajor(shape) == shape[1] > shape[2]

(* whether reshaped has lost the batch axis: by the transposition when      *)
(* time_steps > batch, by output[0] when batch = 1                          *)
ReshapedIs2D(shape) == shape[1] > shape[2] \/ shape[2] = 1

DecodeCrnn ==
  /\ pc = "call"
  /\ ~(get_model_config(model_filename).kind = "special" /\ Len(output.shape) = 3)
  /\ IsCrnn(model_filename)
  /\ Len(output.shape) = 3
  /\ IF ReshapedIs2D(output.shape)
     THEN LET reshaped == CrnnReshaped(output)
              idxs == [r \in DOMAIN reshaped |-> ArgMax(reshaped[r])]
              rs == CrnnResults(reshaped, idxs)
          IN  /\ char_indices' = idxs
              /\ results' = rs
              /\ text' = BestText(rs, expected_text)
              /\ pc' = "done"
              /\ error' = error
     ELSE (* int(idx) of a row of argmax indices *)
          /\ pc' = "error"
          /\ error' = "TypeError"
          /\ UNCHANGED <<char_indices, results, text>>
  /\ normalised' = IsLogits(output)
  /\ route' = "crnn"
  /\ UNCHANGED <<model_filename, output, expected_text, contrib>>

-----------------------------------------------------------------------------
(* Shape-based decoding: the flat format of captcha_model_v1..v8 *)

is_v1_v8_model(filename) ==
  \E i \in 1..8 :
    Contains(Lower(filename),
             CaptchaModelV
               \o <<48 + i>> \o DotOnnx)

AsSingleRow(t) == Len(t.shape) = 2 /\ t.shape[1] = 1

(* FlatSegments that takes the slices from the last to the first *)
FlatSegmentsReversed(t, seq_len, cls_dim) ==
  LET seg(i) == Slice(t, cls_dim * (seq_len - i), cls_dim * (seq_len - i + 1))
  IN  [error |-> "none", softmax |-> IsLogits(t),
       indices |-> [i \in 1..seq_len |->
                      IF seg(i) = <<>> THEN 0 ELSE ArgMax(seg(i))]]

(* the loop over range(seq_len): the argmax of every slice of cls_dim       *)
(* elements; np.argmax of an empty slice raises ValueError                  *)
FlatSegments(t, seq_len, cls_dim) ==
  LET seg(i) == Slice(t, cls_dim * (i - 1), cls_dim * i)
  IN  IF \E i \in 1..seq_len : seg(i) = <<>>
      THEN [error |-> "ValueError", softmax |-> FALSE, indices |-> <<>>]
      ELSE [error |-> "none", softmax |-> IsLogits(t),
            indices |-> [i \in 1..seq_len |->
                           IF IsLogits(t) THEN ArgMax(Softmax(seg(i)))
                           ELSE ArgMax(seg(i))]]

(* FlatText that also drops index 0, as a truth test of the index would *)
FlatTextNoZero(char_set, indices) ==
  Flatten([i \in DOMAIN indices |->
             IF 0 < indices[i] /\ indices[i] < Len(char_set)
             THEN <<char_set[indices[i] + 1]>> ELSE <<>>])

(* FlatEmits in which an index past the end wraps around the character set *)
FlatEmitsWrap(char_set, indices) ==
  [i \in DOMAIN indices |-> <<char_set[(indices[i] % Len(char_set)) + 1]>>]

(* what every index appends: char_set[idx] if idx < len(char_set), else    *)
(* nothing                                                                  *)
FlatEmits(char_set, indices) ==
  [i \in DOMAIN indices |->
     IF indices[i] < Len(char_set) THEN <<char_set[indices[i] + 1]>> ELSE <<>>]

(* text += CHAR_SETS[char_set_key][char_idx] for the indices below cls_dim *)
FlatText(char_set, indices) == Flatten(FlatEmits(char_set, indices))

(* the flat branch of a call under a configured hint *)
FlatDecode(t, filename, expected) ==
  LET cfg == get_model_config(filename)
      r == FlatSegments(t, cfg.seq_len, Len(CHAR_SETS[cfg.key]))
  IN  [error |-> r.error, indices |-> r.indices, softmax |-> r.softmax,
       text |-> FlatText(CHAR_SETS[cfg.key], r.indices)]

DecodeFlatSegmented ==
  /\ pc = "call"
  /\ ~(get_model_config(model_filename).kind = "special" /\ Len(output.shape) = 3)
  /\ ~(IsCrnn(model_filename) /\ Len(output.shape) = 3)
  /\ AsSingleRow(output)
  /\ is_v1_v8_model(model_filename)
  /\ get_model_config(model_filename).kind # "none"
  /\ IF get_model_config(model_filename).kind = "special"
     THEN (* self.CHAR_SETS["captcha.onnx"] *)
          /\ pc' = "error"
          /\ error' = "KeyError"
          /\ UNCHANGED <<char_indices, text, normalised>>
     ELSE LET d == FlatDecode(output, model_filename, expected_text)
          IN  /\ pc' = IF d.error = "none" THEN "done" ELSE "error"
              /\ error' = d.error
              /\ char_indices' = d.indices
              /\ text' = d.text
              /\ normalised' = d.softmax
  /\ route' = "flat"
  /\ UNCHANGED <<model_filename, output, expected_text, contrib, results>>

-----------------------------------------------------------------------------
(* Shape-based decoding: from the tensor to char_indices *)

(* seq_len of the loops below: a length, None, or not yet assigned *)
NoneLen == 0
Unbound == -1

(* for test_seq in [4, 5, 6, 7, 8]: the first character set with            *)
(* total_size = test_seq * len(set) is taken; `if seq_len: break` follows   *)
(* the inner loop and reads seq_len, which is assigned only by a match      *)
RECURSIVE InferLoop(_, _, _)
InferLoop(total_size, test_seqs, seq_len) ==
  IF test_seqs = <<>> THEN [error |-> "none", seq_len |-> seq_len, key |-> "None"]
  ELSE LET test_seq == Head(test_seqs)
           hits == {k \in DOMAIN CharSetKeys :
                      total_size = test_seq * Len(CHAR_SETS[CharSetKeys[k]])}
       IN  IF hits # {}
             THEN [error |-> "none", seq_len |-> test_seq,
                   key |-> CharSetKeys[SetMin(hits)]]
           ELSE IF seq_len = Unbound
             THEN [error |-> "UnboundLocalError", seq_len |-> seq_len, key |-> "None"]
           ELSE InferLoop(total_size, Tail(test_seqs), seq_len)

(* flat_output.reshape(seq_len, num_classes) and the argmax of every row *)
ReshapeArgMax(t, seq_len, num_classes, normalise) ==
  IF seq_len * num_classes # Size(t)
  THEN [error |-> "ValueError", softmax |-> FALSE, indices |-> <<>>]
  ELSE [error |-> "none", softmax |-> normalise,
        indices |-> RowArgMax(t, 0, num_classes, seq_len, normalise)]

(* a single row: output[0] reshaped by the configuration or by inference *)
SingleRowIndices(t, cfg) ==
  LET normalise == IsLogits(t)
  IN  IF cfg.kind = "special"
      THEN [error |-> IF normalise THEN "UnboundLocalError" ELSE "KeyError",
            softmax |-> FALSE, indices |-> <<>>]
      ELSE IF cfg.kind = "config"
      THEN ReshapeArgMax(t, cfg.seq_len, Len(CHAR_SETS[cfg.key]), normalise)
      ELSE LET inf == InferLoop(Size(t), <<4, 5, 6, 7, 8>>, Unbound)
           IN  IF inf.error # "none"
               THEN [error |-> inf.error, softmax |-> FALSE, indices |-> <<>>]
               ELSE ReshapeArgMax(t, inf.seq_len, Len(CHAR_SETS[inf.key]), normalise)

(* for seq_len in [4, ..., 10]: the first length dividing total_size, else  *)
(* the argmax of the whole tensor                                           *)
DivisorIndices(t) ==
  LET total_size == Size(t)
      fits == {seq_len \in 4..10 :
                 total_size \div seq_len > 0
                   /\ total_size = seq_len * (total_size \div seq_len)}
  IN  IF fits # {}
      THEN RowArgMax(t, 0, total_size \div SetMin(fits), SetMin(fits), FALSE)
      ELSE <<ArgMax(Slice(t, 0, total_size))>>

ShapeIndices(t, filename) ==
  IF Len(t.shape) = 3
    THEN [error |-> "none", softmax |-> IsLogits(t),
          indices |-> RowArgMax(t, 0, t.shape[3], t.shape[2], IsLogits(t))]
  ELSE IF Len(t.shape) = 2
    THEN IF t.shape[1] = 1 THEN SingleRowIndices(t, get_model_config(filename))
         ELSE [error |-> "none", softmax |-> FALSE,
               indices |-> RowArgMax(t, 0, t.shape[2], t.shape[1], FALSE)]
  ELSE [error |-> "none", softmax |-> FALSE, indices |-> DivisorIndices(t)]

InferIndices ==
  /\ pc = "call"
  /\ ~(get_model_config(model_filename).kind = "special" /\ Len(output.shape) = 3)
  /\ ~(IsCrnn(model_filename) /\ Len(output.shape) = 3)
  /\ ~( /\ AsSingleRow(output)
        /\ is_v1_v8_model(model_filename)
        /\ get_model_config(model_filename).kind # "none" )
  /\ LET r == ShapeIndices(output, model_filename)
     IN  /\ pc' = IF r.error = "none" THEN "indices" ELSE "error"
         /\ error' = r.error
         /\ char_indices' = r.indices
         /\ normalised' = r.softmax
  /\ route' = "shape"
  /\ UNCHANGED <<model_filename, output, expected_text, contrib, results, text>>

-----------------------------------------------------------------------------
(* Shape-based decoding: from char_indices to text *)

(* CharSetKey with "11" as the default *)
CharSetKeyDefault11(t, filename) ==
  LET cfg == get_model_config(filename)
      inf == InferLoop(Size(t), <<4, 5, 6, 7, 8>>, NoneLen)
  IN  IF cfg.kind = "special" THEN "63"
      ELSE IF cfg.kind = "config" THEN cfg.key
      ELSE IF inf.seq_len # NoneLen THEN inf.key
      ELSE "11"

(* the character set: the configured one, or the one inferred from the size, *)
(* or the default "63"                                                      *)
CharSetKey(t, filename) ==
  LET cfg == get_model_config(filename)
      inf == InferLoop(Size(t), <<4, 5, 6, 7, 8>>, NoneLen)
  IN  IF cfg.kind = "special" THEN "63"
      ELSE IF cfg.kind = "config" THEN cfg.key
      ELSE IF inf.seq_len # NoneLen THEN inf.key
      ELSE "63"

charset_variants(char_set) ==
  IF Len(char_set) = 63
  THEN << CHAR_SETS["63"],
          digits \o ascii_lowercase \o ascii_uppercase \o <<36>>,
          ascii_uppercase \o ascii_lowercase \o digits \o <<36>>,
          ascii_lowercase \o ascii_uppercase \o digits \o <<36>> >>
  ELSE << char_set,
          digits \o ascii_lowercase \o <<36>>,
          digits \o ascii_uppercase \o <<36>>,
          CHAR_SETS["37_uppercase"],
          CHAR_SETS["37_lowercase"] >>

match_score(variant_text, expected) ==
  IF variant_text = expected THEN 1000
  ELSE LET min_len == IF Len(variant_text) < Len(expected) THEN Len(variant_text)
                      ELSE Len(expected)
       IN  10 * Cardinality({i \in 1..min_len : variant_text[i] = expected[i]})
             + (IF Len(variant_text) = Len(expected) THEN 5 ELSE 0)

(* variant_text and match_score of every variant, in order *)
VariantResults(char_set, indices, expected) ==
  LET vs == charset_variants(char_set)
  IN  [k \in DOMAIN vs |->
         LET variant_text == FlatText(vs[k], indices)
         IN  [variant |-> k, text |-> variant_text,
              score |-> match_score(variant_text, expected)]]

(* BestVariant in which a later variant of the same score replaces the best *)
RECURSIVE BestVariantLast(_, _, _)
BestVariantLast(rs, best_text, best_match_score) ==
  IF rs = <<>> THEN best_text
  ELSE IF Head(rs).score >= best_match_score
    THEN BestVariantLast(Tail(rs), Head(rs).text, Head(rs).score)
  ELSE BestVariantLast(Tail(rs), best_text, best_match_score)

(* the loop keeping the first variant of the largest score *)
RECURSIVE BestVariant(_, _, _)
BestVariant(rs, best_text, best_match_score) ==
  IF rs = <<>> THEN best_text
  ELSE IF Head(rs).score > best_match_score
    THEN BestVariant(Tail(rs), Head(rs).text, Head(rs).score)
  ELSE BestVariant(Tail(rs), best_text, best_match_score)

(* Convert that never tries the variants *)
ConvertNoVariants(t, filename, indices, expected) ==
  LET char_set == CHAR_SETS[CharSetKey(t, filename)]
  IN  [route |-> "standard", results |-> <<>>,
       contrib |-> FlatEmits(char_set, indices),
       text |-> FlatText(char_set, indices)]

(* the end of the call: the best of the variants when there is a reference  *)
(* and the character set has 63 or 37 symbols, else the standard decoding   *)
Convert(t, filename, indices, expected) ==
  LET char_set == CHAR_SETS[CharSetKey(t, filename)]
  IN  IF expected # <<>> /\ Len(char_set) \in {63, 37}
      THEN LET rs == VariantResults(char_set, indices, expected)
           IN  [route |-> "variants", results |-> rs, contrib |-> <<>>,
                text |-> BestVariant(rs, <<>>, -1)]
      ELSE [route |-> "standard", results |-> <<>>,
            contrib |-> FlatEmits(char_set, indices),
            text |-> FlatText(char_set, indices)]

ConvertIndices ==
  /\ pc = "indices"
  /\ LET c == Convert(output, model_filename, char_indices, expected_text)
     IN  /\ results' = c.results
         /\ contrib' = c.contrib
         /\ text' = c.text
         /\ route' = c.route
  /\ pc' = "done"
  /\ UNCHANGED <<model_filename, output, expected_text, char_indices, error,
                 normalised>>

(* a whole call on the shape-based path: the indices, then their text *)
ShapeDecode(t, filename, expected) ==
  LET r == ShapeIndices(t, filename)
  IN  IF r.error # "none" THEN [error |-> r.error, text |-> <<>>]
      ELSE [error |-> "none", text |-> Convert(t, filename, r.indices, expected).text]

-----------------------------------------------------------------------------
(* Inputs *)

(* A tensor of rows of V elements whose row r has its largest score at      *)
(* top1[r] and, where top2 is given, its second largest at top2[r]; with    *)
(* neg, one other element of the first row is negative.  The rows are those *)
(* of batch 0: consecutive, or one per time step of a time-major tensor.    *)
TensorOf(shape, V, top1, top2, neg) ==
  LET stride == IF Len(shape) = 3 /\ shape[1] > shape[2] THEN shape[2] * V ELSE V
      P1 == {(r - 1) * stride + top1[r] : r \in DOMAIN top1}
      P2 == {(r - 1) * stride + top2[r] : r \in DOMAIN top2}
      PN == IF neg THEN {SetMin((0..(V - 1)) \ (P1 \cup P2))} ELSE {}
  IN  [shape |-> shape,
       peaks |-> [p \in P1 \cup P2 \cup PN |->
                    IF p \in P1 THEN 2 ELSE IF p \in P2 THEN 1 ELSE -1]]

Seqs(S, n) == UNION {[1..k -> S] : k \in 1..n}

MaxPositions == 3

TokenIndices == {0, 5, 12, 63, 64, 65, 66, 92, 94}

TokenizerHints ==
  { ModelOnnx,
    CaptchaOnnx }

TokenizerReferences == {<<>>, Str(<<"4","b">>)}

Idle ==
  /\ pc = "call"
  /\ route = "none"
  /\ char_indices = <<>>
  /\ contrib = <<>>
  /\ results = <<>>
  /\ text = <<>>
  /\ error = "none"
  /\ normalised = FALSE

InitTokenizer ==
  /\ model_filename \in TokenizerHints
  /\ \E path \in Seqs(TokenIndices, MaxPositions), neg \in BOOLEAN :
       output = TensorOf(<<1, Len(path), 95>>, 95, path, <<>>, neg)
  /\ expected_text \in TokenizerReferences
  /\ Idle

SpecTokenizer == InitTokenizer /\ [][DecodeTokenizer]_vars

-----------------------------------------------------------------------------
(* Properties of the tokenizer format *)

TokenizerDone == pc = "done" /\ route = "tokenizer"

(* the first position of char_indices holding idx, Len + 1 if there is none *)
FirstOf(idx) ==
  SetMin({i \in DOMAIN char_indices : char_indices[i] = idx}
         \cup {Len(char_indices) + 1})

(* C1: only the positions before the first end-of-sequence index 0 append    *)
(* characters: the position holding 0 and every later one append nothing,    *)
(* text is what the earlier positions appended, and an argmax path           *)
(* [a, b, 0, ...] over vocabulary indices a, b decodes to their two symbols. *)
C1_StopsBeforeEos ==
  TokenizerDone =>
    /\ \A i \in DOMAIN char_indices : i >= FirstOf(0) => contrib[i] = <<>>
    /\ text = Flatten(SubSeq(contrib, 1, FirstOf(0) - 1))
    /\ Len(text) <= FirstOf(0) - 1
    /\ LET charset == TokenizerLayout(model_filename).charset
       IN  ( /\ Len(char_indices) >= 3
             /\ char_indices[1] \in 1..Len(charset)
             /\ char_indices[2] \in 1..Len(charset)
             /\ char_indices[3] = 0 )
           => text = <<charset[char_indices[1]], charset[char_indices[2]]>>

C1_Witness ==
  /\ TokenizerDone
  /\ char_indices = <<5, 12, 0>>
  /\ text = Str(<<"4", "b">>)

(* C2: a position whose argmax index is the end-of-sequence, unknown,        *)
(* begin-of-sequence or pad index of the hint's layout appends no character, *)
(* so text is no longer than the number of other positions.                  *)
C2_SpecialsEmitNothing ==
  TokenizerDone =>
    LET l == TokenizerLayout(model_filename)
        special == {l.eos_id, l.unk_id, l.bos_id, l.pad_id}
    IN  /\ \A i \in DOMAIN char_indices :
             char_indices[i] \in special => contrib[i] = <<>>
        /\ Len(text) <= Cardinality({i \in DOMAIN char_indices :
                                       char_indices[i] \notin special})

C2_Witness ==
  /\ TokenizerDone
  /\ ~IsCaptchaOnnx(model_filename)
  /\ char_indices = <<92, 5, 94>>
  /\ text = Str(<<"4">>)

(* C11 as stated: for both hints a position before the first end-of-sequence *)
(* index appends the charset symbol at (index - 1) when its index is in      *)
(* 1..len(charset) and is no special token, and nothing otherwise.           *)
C11_Original ==
  TokenizerDone =>
    LET l == TokenizerLayout(model_filename)
        special == {l.unk_id, l.bos_id, l.pad_id}
    IN  \A i \in 1..(FirstOf(0) - 1) :
          contrib[i] = IF char_indices[i] \in 1..Len(l.charset)
                          /\ char_indices[i] \notin special
                       THEN <<l.charset[char_indices[i]]>> ELSE <<>>

(* C11 amended: under captcha.onnx an index in 1..62 appends the charset     *)
(* symbol at (index - 1) and the indices 63..94 append nothing; under        *)
(* model.onnx an index in 1..63 appends the charset symbol at (index - 1),   *)
(* an index in 64..91 appends the ASCII character of code 31 + index, and    *)
(* 92, 93, 94 append nothing.  In both cases every position before the first *)
(* end-of-sequence index is decoded by this rule, whatever precedes it.      *)
C11_OverflowByHint ==
  TokenizerDone =>
    \A i \in 1..(FirstOf(0) - 1) :
      LET idx == char_indices[i]
      IN  IF IsCaptchaOnnx(model_filename)
          THEN contrib[i] = IF idx \in 1..62 THEN <<charset_captcha_onnx[idx]>>
                            ELSE <<>>
          ELSE contrib[i] = IF idx \in 1..63 THEN <<charset_digits_first[idx]>>
                            ELSE IF idx \in 64..91 THEN <<31 + idx>>
                            ELSE <<>>

C11_Witness ==
  /\ TokenizerDone
  /\ ~IsCaptchaOnnx(model_filename)
  /\ char_indices = <<66, 5, 0>>
  /\ contrib = << Str(<<"a">>), Str(<<"4">>), <<>> >>
  /\ text = Str(<<"a", "4">>)

(* C13: when the argmax of the first row of the tensor is the                *)
(* end-of-sequence index, the call returns, without an error, the empty text. *)
C13_EmptyInput ==
  ( /\ pc # "call"
    /\ ArgMax(Row(output, 0, output.shape[3], 0)) = TokenizerLayout(model_filename).eos_id )
  => /\ TokenizerDone
     /\ error = "none"
     /\ text = <<>>

C13_Witness ==
  /\ TokenizerDone
  /\ char_indices = <<0, 5, 12>>
  /\ error = "none"
  /\ text = <<>>

(* C15: the text a tokenizer call returns is the text the call returns for   *)
(* the same tensor and hint under every other reference, and under none.     *)
C15_ReferenceIgnored ==
  TokenizerDone =>
    \A e2 \in TokenizerReferences :
      TokenizerDecode(model_filename, output, e2).text = text

C15_Witness ==
  /\ TokenizerDone
  /\ expected_text = Str(<<"4", "b">>)
  /\ char_indices = <<5, 5>>
  /\ text = Str(<<"4", "4">>)
  /\ TokenizerDecode(model_filename, output, <<>>).text = text

(* C17 as stated: for both hints the end-of-sequence index is 0 and the      *)
(* unknown, begin and pad indices are len(V) + 1, len(V) + 2, len(V) + 3, V  *)
(* being the charset the characters are taken from, so that a position       *)
(* holding one of these three indices appends nothing.                       *)
C17_Original ==
  TokenizerDone =>
    LET l == TokenizerLayout(model_filename)
        n == Len(l.charset)
    IN  /\ l.eos_id = 0
        /\ <<l.unk_id, l.bos_id, l.pad_id>> = <<n + 1, n + 2, n + 3>>
        /\ \A i \in 1..(FirstOf(0) - 1) :
             char_indices[i] \in (n + 1)..(n + 3) => contrib[i] = <<>>

(* C17 amended: the end-of-sequence index is 0 for both hints.  Under        *)
(* captcha.onnx the charset has 62 symbols and unknown, begin, pad are 63,   *)
(* 64, 65.  Under model.onnx the charset has 63 symbols but unknown, begin,  *)
(* pad are 92, 93, 94 (an assumed charset of 95 - 4 = 91 entries): the       *)
(* indices 64, 65, 66 append a character.                                    *)
C17_SpecialTokenLayout ==
  TokenizerDone =>
    LET l == TokenizerLayout(model_filename)
    IN  /\ l.eos_id = 0
        /\ IF IsCaptchaOnnx(model_filename)
           THEN /\ Len(l.charset) = 62
                /\ <<l.unk_id, l.bos_id, l.pad_id>> = <<63, 64, 65>>
           ELSE /\ Len(l.charset) = 63
                /\ <<l.unk_id, l.bos_id, l.pad_id>> = <<92, 93, 94>>
                /\ \A i \in 1..(FirstOf(0) - 1) :
                     char_indices[i] \in 64..66 => Len(contrib[i]) = 1
        /\ \A i \in DOMAIN char_indices :
             char_indices[i] \in {l.eos_id, l.unk_id, l.bos_id, l.pad_id}
               => contrib[i] = <<>>

C17_Witness ==
  /\ TokenizerDone
  /\ ~IsCaptchaOnnx(model_filename)
  /\ char_indices = <<64, 92, 12>>
  /\ contrib = << Str(<<"_">>), <<>>, Str(<<"b">>) >>
  /\ text = Str(<<"_", "b">>)

-----------------------------------------------------------------------------
(* Inputs of the CTC format *)

MaxSteps == 4

CrnnIndices == {0, 3, 7, 12, 33}

CrnnSeconds == {3, 20}

CrnnExamples == {<<33, 3, 3, 33, 3, 7>>, <<0, 3, 7, 3, 7>>}

CrnnHints == { Str(<<"c","r","n","n","_","m","o","d","e","l",".","o","n","n","x">>) }

CrnnReferences == {<<>>, Str(<<"3","7">>), Str(<<"3","8">>)}

(* second[r] is s, or 20 or 21 where the largest score is already at s *)
SecondPath(path, s) ==
  [r \in DOMAIN path |-> IF path[r] # s THEN s ELSE IF s # 20 THEN 20 ELSE 21]

InitCrnn ==
  /\ model_filename \in CrnnHints
  /\ \E path \in Seqs(CrnnIndices, MaxSteps) \cup CrnnExamples,
        s \in CrnnSeconds, neg \in BOOLEAN, batch \in {1, 2} :
       /\ batch = 2 => (neg /\ s = 20)
       /\ output = TensorOf(<<Len(path), batch, 34>>, 34, path, SecondPath(path, s), neg)
  /\ expected_text \in CrnnReferences
  /\ Idle

SpecCrnn == InitCrnn /\ [][DecodeCrnn]_vars

-----------------------------------------------------------------------------
(* Properties of the CTC format *)

CrnnDone == pc = "done" /\ route = "crnn"

(* the argmax hypothesis of mapping k *)
Greedy(k) == results[2 * k - 1]

(* C3 as stated: under the mapping blank = 33, digits at 0..9, the argmax    *)
(* path [blank, 3, 3, blank, 3, 7] gives the argmax hypothesis "37".         *)
C3_Original ==
  (CrnnDone /\ char_indices = <<33, 3, 3, 33, 3, 7>>)
    => Greedy(3).text = Str(<<"3", "7">>)

(* C3 amended: under the mapping blank = 33, digits at 0..9, the argmax path *)
(* [blank, 3, 3, blank, 3, 7] gives the argmax hypothesis "337": the repeat  *)
(* is merged, and the blank keeps the 3 after it.                            *)
C3_WorkedExample ==
  (CrnnDone /\ char_indices = <<33, 3, 3, 33, 3, 7>>)
    => /\ mappings_config[3].blank_id = 33
       /\ Greedy(3).fed = char_indices
       /\ Greedy(3).text = Str(<<"3", "3", "7">>)

C3_Witness ==
  /\ CrnnDone
  /\ char_indices = <<33, 3, 3, 33, 3, 7>>
  /\ Greedy(3).text = Str(<<"3", "3", "7">>)

(* 10 for every position below the shorter length where the characters are  *)
(* equal, plus 5 when the lengths are equal                                  *)
PositionalScore(t, expected) ==
  LET n == IF Len(t) < Len(expected) THEN Len(t) ELSE Len(expected)
  IN  10 * Cardinality({i \in 1..n : t[i] = expected[i]})
        + (IF Len(t) = Len(expected) THEN 5 ELSE 0)

NoExactHypothesis == \A i \in DOMAIN results : results[i].text # expected_text

(* the indices of the all-digit hypotheses of at least 4 characters *)
DigitHypotheses ==
  {i \in DOMAIN results : isdigit(results[i].text) /\ Len(results[i].text) >= 4}

(* the earliest of the longest all-digit hypotheses, the first hypothesis if *)
(* there is none                                                             *)
DigitChoice ==
  IF DigitHypotheses = {} THEN 1
  ELSE SetMin({i \in DigitHypotheses :
                 \A j \in DigitHypotheses :
                   Len(results[j].text) <= Len(results[i].text)})

(* C5 as stated: with a reference and no hypothesis equal to it, the text    *)
(* returned is the earliest hypothesis of maximal positional score.          *)
C5_Original ==
  (CrnnDone /\ expected_text # <<>> /\ NoExactHypothesis) =>
    LET best == SetMin({i \in DOMAIN results :
                   \A j \in DOMAIN results :
                     PositionalScore(results[j].text, expected_text)
                       <= PositionalScore(results[i].text, expected_text)})
    IN  text = results[best].text

(* C5 amended: with a reference and no hypothesis equal to it, no positional *)
(* score is computed: the text returned is the longest hypothesis that is    *)
(* all digits and at least 4 characters long (the earliest of equally long   *)
(* ones), and the first hypothesis if there is none.                         *)
C5_NoExactPrefersDigits ==
  (CrnnDone /\ expected_text # <<>> /\ NoExactHypothesis) =>
    text = results[DigitChoice].text

C5_Witness ==
  /\ CrnnDone
  /\ expected_text = Str(<<"3", "8">>)
  /\ NoExactHypothesis
  /\ char_indices = <<0, 3, 7, 3>>
  /\ text = Str(<<"0", "3", "7", "3">>)
  /\ results[1].text = Str(<<"2", "6", "2">>)

(* C6 as stated: with no reference, the text returned is the argmax          *)
(* hypothesis of the first mapping.                                          *)
C6_Original ==
  (CrnnDone /\ expected_text = <<>>) => text = Greedy(1).text

(* C6 amended: with no reference, the text returned is the argmax hypothesis *)
(* of the first mapping unless some hypothesis is all digits and at least 4  *)
(* characters long; then it is the longest such hypothesis, the earliest of  *)
(* equally long ones.                                                        *)
C6_NoReferenceDefault ==
  (CrnnDone /\ expected_text = <<>>) =>
    /\ DigitHypotheses = {} => text = Greedy(1).text
    /\ DigitHypotheses # {} => text = results[DigitChoice].text

C6_Witness ==
  /\ CrnnDone
  /\ expected_text = <<>>
  /\ DigitHypotheses = {}
  /\ char_indices = <<3, 7>>
  /\ text = Str(<<"2", "6">>)
  /\ Greedy(3).text = Str(<<"3", "7">>)

(* C10: a sequence fed to the loop that holds no blank of the mapping and no *)
(* two adjacent equal indices is left as it is: every time step appends the  *)
(* one character of its index, in order.                                     *)
C10_CollapseIdempotent ==
  CrnnDone =>
    \A h \in DOMAIN results :
      LET r == results[h]
          mp == mappings_config[r.mapping]
      IN  ( /\ \A i \in DOMAIN r.fed : r.fed[i] # mp.blank_id
            /\ \A i \in 1..(Len(r.fed) - 1) : r.fed[i] # r.fed[i + 1] )
          => /\ \A i \in DOMAIN r.fed :
                  Len(r.emits[i]) = 1 /\ r.emits[i] = MappingChar(mp, r.fed[i])
             /\ Len(r.text) = Len(r.fed)

C10_Witness ==
  /\ CrnnDone
  /\ char_indices = <<3, 7, 3, 12>>
  /\ Greedy(1).fed = char_indices
  /\ Greedy(1).text = Str(<<"2", "6", "2", "B">>)

(* C18: in the argmax hypothesis of every mapping the loop is fed the argmax *)
(* path, and a time step appends its character iff its index is not the      *)
(* blank of the mapping and it is the first step or its index differs from   *)
(* the index of the step before (which holds in particular when that step    *)
(* was a blank); every other step appends nothing.  So a blank between two   *)
(* equal indices keeps both, and equal indices in a row append once.         *)
C18_GreedyRule ==
  CrnnDone =>
    \A k \in DOMAIN mappings_config :
      LET r == Greedy(k)
          mp == mappings_config[k]
          kept(i) == /\ r.fed[i] # mp.blank_id
                     /\ (i = 1 \/ r.fed[i] # r.fed[i - 1] \/ r.fed[i - 1] = mp.blank_id)
      IN  /\ r.fed = char_indices
          /\ \A i \in DOMAIN r.fed :
               IF kept(i)
               THEN Len(r.emits[i]) = 1 /\ r.emits[i] = MappingChar(mp, r.fed[i])
               ELSE r.emits[i] = <<>>
          /\ Len(r.text) = Cardinality({i \in DOMAIN r.fed : kept(i)})

C18_Witness ==
  /\ CrnnDone
  /\ char_indices = <<3, 0, 3, 3>>
  /\ Greedy(1).emits = << Str(<<"2">>), <<>>, Str(<<"2">>), <<>> >>
  /\ Greedy(1).text = Str(<<"2", "2">>)

(* the top-2 hypothesis of mapping k *)
Biased(k) == results[2 * k]

(* the largest and the second largest index of every time step, as a tuple *)
Tops == LET reshaped == CrnnReshaped(output) \o <<>>
        IN  [i \in DOMAIN reshaped |-> Top2(reshaped[i])] \o <<>>

(* C19 as stated: in the top-2 hypothesis of every mapping, the index fed to *)
(* the loop at a time step is the second index iff the first lies in a       *)
(* letter range and the second in the digit range; otherwise, also when the  *)
(* first is the blank, it is the first.                                      *)
C19_Original ==
  CrnnDone =>
    LET tops == Tops
    IN  \A k \in DOMAIN mappings_config, i \in DOMAIN char_indices :
          LET mp == mappings_config[k]
              idx1 == tops[i][1]
              idx2 == tops[i][2]
          IN  Biased(k).fed[i] =
                IF (InLetters(mp, idx1) \/ InLetters2(mp, idx1)) /\ InDigits(mp, idx2)
                THEN idx2 ELSE idx1

(* C19 amended: the index fed is the second index iff the second lies in the *)
(* digit range and the first lies in a letter range or is the blank; in      *)
(* every other case it is the first.                                         *)
C19_Top2Choice ==
  CrnnDone =>
    LET tops == Tops
    IN  \A k \in DOMAIN mappings_config, i \in DOMAIN char_indices :
          LET mp == mappings_config[k]
              idx1 == tops[i][1]
              idx2 == tops[i][2]
          IN  /\ idx1 = char_indices[i]
              /\ Biased(k).fed[i] =
                   IF /\ mp.digit_start <= idx2 /\ idx2 <= mp.digit_end
                      /\ \/ mp.letter_start <= idx1 /\ idx1 <= mp.letter_end
                         \/ InLetters2(mp, idx1)
                         \/ idx1 = mp.blank_id
                   THEN idx2 ELSE idx1

C19_Witness ==
  /\ CrnnDone
  /\ char_indices = <<0, 12>>
  /\ Tops = << <<0, 3>>, <<12, 3>> >>
  /\ Biased(1).fed = <<3, 3>>
  /\ Biased(1).text = Str(<<"2">>)

(* C23: a call on the CTC path collects 14 hypotheses: for each of the 7     *)
(* mappings in order, its argmax hypothesis then its top-2 hypothesis, each  *)
(* the text of the loop run on what it was fed; and the text returned is the *)
(* text of one of them, with a reference or without.                         *)
C23_HypothesisSet ==
  CrnnDone =>
    /\ Len(results) = 14
    /\ \A k \in 1..7 :
         /\ Greedy(k).mapping = k /\ Greedy(k).variant = "argmax"
         /\ Biased(k).mapping = k /\ Biased(k).variant = "top-2"
         /\ Greedy(k).fed = char_indices
         /\ Len(Biased(k).fed) = Len(char_indices)
    /\ \A h \in DOMAIN results :
         results[h].text
           = Flatten(CtcLoop(mappings_config[results[h].mapping], results[h].fed, -1))
    /\ \E h \in DOMAIN results : text = results[h].text

C23_Witness ==
  /\ CrnnDone
  /\ Len(results) = 14
  /\ expected_text = Str(<<"3", "8">>)
  /\ char_indices = <<3, 7>>
  /\ Greedy(3).text = Str(<<"3", "7">>)
  /\ text = Greedy(1).text
  /\ text = Str(<<"2", "6">>)

(* C26: when there is no reference, or no hypothesis equals it, and some     *)
(* hypothesis is a non-empty text of digits only, at least 4 characters      *)
(* long, the text returned is such a hypothesis, no such hypothesis is       *)
(* longer, and none before it is as long; when there is none, the text       *)
(* returned is the first hypothesis.                                         *)
C26_LongestDigits ==
  (CrnnDone /\ (expected_text = <<>> \/ NoExactHypothesis)) =>
    LET good(h) == /\ results[h].text # <<>>
                   /\ \A i \in DOMAIN results[h].text : IsDigitChar(results[h].text[i])
                   /\ Len(results[h].text) >= 4
    IN  IF \E h \in DOMAIN results : good(h)
        THEN \E h \in DOMAIN results :
               /\ good(h)
               /\ text = results[h].text
               /\ \A j \in DOMAIN results : good(j) =>
                    /\ Len(results[j].text) <= Len(text)
                    /\ j < h => Len(results[j].text) < Len(text)
        ELSE text = results[1].text

C26_Witness ==
  /\ CrnnDone
  /\ expected_text = <<>>
  /\ char_indices = <<0, 3, 7, 3, 7>>
  /\ results[1].text = Str(<<"2", "6", "2", "6">>)
  /\ results[5].text = Str(<<"0", "3", "7", "3", "7">>)
  /\ text = results[5].text

-----------------------------------------------------------------------------
(* Inputs of the shape-based decoding *)

Versions == 1..8

FlatHint(k) ==
  CaptchaModelV
    \o <<48 + k>> \o DotOnnx

OtherHint == Str(<<"o","t","h","e","r",".","o","n","n","x">>)

ModelHint(k) ==
  Str(<<"m","o","d","e","l","_","v">>) \o <<48 + k>> \o DotOnnx

ShapeReferences == {<<>>, Str(<<"j","9","$","j","9","$">>)}

(* the rows a configured hint expects, every row's largest score at index   *)
(* 0, 9 or the last, under the name of either route                         *)
InitFlat ==
  \E k \in Versions, neg \in BOOLEAN :
    LET L == MODEL_CONFIGS[k].seq_len
        V == Len(CHAR_SETS[MODEL_CONFIGS[k].key])
    IN  /\ model_filename \in {FlatHint(k), ModelHint(k)}
        /\ \E path \in [1..L -> {0, 9, V - 1}] :
             output = TensorOf(<<1, L * V>>, V, path, <<>>, neg)
        /\ expected_text \in ShapeReferences

(* a single row of L * V elements under a hint that names no configuration *)
InitGeneric ==
  \E L \in 4..8, V \in {63, 37, 11}, neg \in BOOLEAN :
    /\ model_filename = OtherHint
    /\ \E path \in [1..L -> {9, V - 1}] :
         output = TensorOf(<<1, L * V>>, V, path, <<>>, neg)
    /\ expected_text \in ShapeReferences

(* tensors whose size is no L * V of the table, of every rank: the largest  *)
(* score at position a, the second largest at position b                    *)
OddShapes ==
  { <<1, 50>>, <<1, 7>>, <<3>>, <<7>>, <<12>>, <<50>>, <<2, 11>>, <<3, 63>>,
    <<2, 70>>, <<1, 2, 11>>, <<1, 3, 63>>, <<2, 3, 2, 1>>, <<1, 1, 1, 3>> }

InitOdd ==
  \E shape \in OddShapes, neg \in BOOLEAN :
    \E a \in {0, 2, Product(shape) - 2}, b \in {1, Product(shape) - 1} :
      /\ model_filename = OtherHint
      /\ output = TensorOf(shape, Product(shape), <<a>>, <<b>>, neg)
      /\ expected_text \in ShapeReferences

LongRows == 101

(* many rows of 63 scores under a configured hint: digits, then one letter; *)
(* the reference is that path read in the uppercase-first order             *)
InitLong ==
  /\ model_filename = ModelHint(1)
  /\ \E d \in {52, 53}, c \in {0, 1}, neg \in BOOLEAN :
       /\ output = TensorOf(<<LongRows, 63>>, 63,
                            [i \in 1..LongRows |-> IF i < LongRows THEN d ELSE c],
                            <<>>, neg)
       /\ expected_text \in
            { [i \in 1..LongRows |-> IF i < LongRows THEN 48 ELSE 65],
              [i \in 1..4 |-> 48] }

(* a configured hint with a single row that is one element shorter, one     *)
(* element longer or one run longer than seq_len * len(character set), or   *)
(* two runs long                                                            *)
InitMisfit ==
  \E k \in Versions, neg \in BOOLEAN :
    LET L == MODEL_CONFIGS[k].seq_len
        V == Len(CHAR_SETS[MODEL_CONFIGS[k].key])
    IN  /\ model_filename = FlatHint(k)
        /\ \E n \in {L * V - 1, L * V + 1, L * V + V, 2 * V}, c \in {0, 9} :
             output = TensorOf(<<1, n>>, V,
                               [i \in 1..(IF n = 2 * V THEN 2 ELSE L) |->
                                  IF i = 2 THEN c ELSE 9 - c],
                               <<>>, neg)
        /\ expected_text \in ShapeReferences

InitShape ==
  /\ InitFlat \/ InitGeneric \/ InitOdd \/ InitLong \/ InitMisfit
  /\ Idle

NextShape == DecodeFlatSegmented \/ InferIndices \/ ConvertIndices

SpecShape == InitShape /\ [][NextShape]_vars

-----------------------------------------------------------------------------
(* Properties of the shape-based decoding *)

Returned == pc = "done"
Raised == pc = "error"

Unrecognised ==
  get_model_config(model_filename).kind = "none" /\ ~IsCrnn(model_filename)

(* the table of the inference: lengths 4..8, the sizes of CHAR_SETS *)
Factorisations(total_size) ==
  {<<L, V>> \in (4..8) \X {63, 37, 11} : total_size = L * V}

(* C4 as stated: whenever candidates are ranked against a reference and one  *)
(* of them equals it, the text returned is the reference.                    *)
C4_Original ==
  ( /\ Returned
    /\ route \in {"crnn", "variants"}
    /\ expected_text # <<>>
    /\ \E i \in DOMAIN results : results[i].text = expected_text )
  => text = expected_text

(* C7 as stated: an unrecognised hint and a size with no factorisation end   *)
(* in an error, no text is returned.                                         *)
C7_Original ==
  (Unrecognised /\ Factorisations(Size(output)) = {}) => ~Returned

(* C7 amended: with an unrecognised hint and a size with no factorisation,   *)
(* only a single row (rank 2) ends in an error; a tensor of any other shape  *)
(* is decoded by the fallbacks: its indices (the argmax of its rows, of the  *)
(* rows of the first length 4..10 dividing its size, or of the whole tensor) *)
(* are read in the default 63-symbol character set and a text is returned.   *)
C7_FallbackDefaults ==
  (Unrecognised /\ Factorisations(Size(output)) = {}) =>
    /\ Raised => AsSingleRow(output) /\ error = "UnboundLocalError"
    /\ (AsSingleRow(output) /\ pc # "call") => Raised
    /\ Returned =>
         /\ route \in {"standard", "variants"}
         /\ char_indices # <<>>
         /\ route = "standard" =>
              text = Flatten([i \in DOMAIN char_indices |->
                                IF char_indices[i] < 63
                                THEN <<CHAR_SETS["63"][char_indices[i] + 1]>>
                                ELSE <<>>])
         /\ \A i \in DOMAIN text :
              \E j \in DOMAIN CHAR_SETS["63"] : text[i] = CHAR_SETS["63"][j]

C7_Witness ==
  /\ Returned
  /\ Unrecognised
  /\ output.shape = <<12>>
  /\ char_indices = <<2, 0, 0, 2>>
  /\ text = Str(<<"c", "a", "a", "c">>)

(* C8 as stated: an unrecognised hint and a single row of L * V elements,    *)
(* L in 4..8 and V in {63, 37, 11}: the call returns L characters, one for   *)
(* the argmax of each run of V elements.                                     *)
C8_Original ==
  (Unrecognised /\ AsSingleRow(output) /\ pc \in {"done", "error"}) =>
    \A f \in Factorisations(Size(output)) :
      /\ Returned
      /\ Len(text) = f[1]
      /\ char_indices = [i \in 1..f[1] |->
                           ArgMax(Slice(output, (i - 1) * f[2], i * f[2]))]

(* the position (from 0) of a character in a character set *)
IndexIn(char_set, c) == (CHOOSE j \in DOMAIN char_set : char_set[j] = c) - 1

(* C9: for the hints captcha_model_v1..v8 and a single row of                *)
(* seq_len * len(character set) elements, every character of the text is in *)
(* the character set once, and the positions of the characters are the       *)
(* argmax indices of the runs of the row, in order.                          *)
C9_FlatRoundTrip ==
  (Returned /\ route = "flat") =>
    LET cfg == get_model_config(model_filename)
        char_set == CHAR_SETS[cfg.key]
        V == Len(char_set)
    IN  Size(output) = cfg.seq_len * V =>
          /\ Len(text) = cfg.seq_len
          /\ \A i \in DOMAIN text :
               Cardinality({j \in DOMAIN char_set : char_set[j] = text[i]}) = 1
          /\ [i \in DOMAIN text |-> IndexIn(char_set, text[i])]
               = [i \in 1..cfg.seq_len |->
                    ArgMax(Slice(output, (i - 1) * V, i * V))]

C9_Witness ==
  /\ Returned
  /\ route = "flat"
  /\ model_filename = FlatHint(1)
  /\ Size(output) = 6 * 63
  /\ char_indices = <<0, 9, 62, 0, 9, 62>>
  /\ text = Str(<<"a", "j", "$", "a", "j", "$">>)

(* the positions of char_indices whose index is below n, in order *)
InRange(n) ==
  LET inr == {i \in DOMAIN char_indices : char_indices[i] < n}
  IN  [k \in 1..Cardinality(inr) |->
         CHOOSE i \in inr : Cardinality({j \in inr : j < i}) = k - 1]

(* C12: in the standard decoding an index at or past the length of the      *)
(* character set appends nothing and raises no error, every other index     *)
(* appends the character at its place, and the text is the characters of    *)
(* the in-range positions in order.                                          *)
C12_StandardOverflow ==
  (Returned /\ route = "standard") =>
    LET char_set == CHAR_SETS[CharSetKey(output, model_filename)]
        pos == InRange(Len(char_set))
    IN  /\ error = "none"
        /\ \A i \in DOMAIN char_indices :
             char_indices[i] >= Len(char_set) => contrib[i] = <<>>
        /\ Len(text) = Len(pos)
        /\ \A k \in DOMAIN pos : text[k] = char_set[char_indices[pos[k]] + 1]

C12_Witness ==
  /\ Returned
  /\ route = "standard"
  /\ output.shape = <<2, 70>>
  /\ char_indices = <<2, 69>>
  /\ contrib = << Str(<<"c">>), <<>> >>
  /\ text = Str(<<"c">>)

(* 1000 for a text equal to the reference, else its positional score *)
ReferenceScore(t, expected) ==
  IF t = expected THEN 1000 ELSE PositionalScore(t, expected)

(* C14 as stated: the text of a call on the shape-based path is the text of  *)
(* the call for the same tensor and hint under every other reference, and    *)
(* under none.                                                               *)
C14_Original ==
  (Returned /\ route \in {"standard", "variants"}) =>
    \A e2 \in ShapeReferences :
      ShapeDecode(output, model_filename, e2).text = text

(* C14 amended: that holds when the character set has 11 symbols, and a call *)
(* with no reference returns the reading of the indices in the resolved      *)
(* character set.  With 63 or 37 symbols a call with a reference returns the *)
(* reading of the indices in the first ordering of the character set whose   *)
(* score against the reference is the highest.                               *)
C14_ReferencePicksOrdering ==
  (Returned /\ route \in {"standard", "variants"}) =>
    LET char_set == CHAR_SETS[CharSetKey(output, model_filename)]
        vs == charset_variants(char_set)
        reading(k) == FlatText(vs[k], char_indices)
        best == SetMin({k \in DOMAIN vs :
                  \A j \in DOMAIN vs :
                    ReferenceScore(reading(j), expected_text)
                      <= ReferenceScore(reading(k), expected_text)})
    IN  /\ Len(char_set) \notin {63, 37} =>
             \A e2 \in ShapeReferences :
               ShapeDecode(output, model_filename, e2).text = text
        /\ expected_text = <<>> =>
             text = FlatText(char_set, char_indices)
        /\ (expected_text # <<>> /\ Len(char_set) \in {63, 37}) =>
             text = reading(best)

C14_Witness ==
  /\ Returned
  /\ route = "variants"
  /\ Size(output) = 4 * 37
  /\ expected_text = Str(<<"j", "9", "$", "j", "9", "$">>)
  /\ char_indices = <<9, 9, 36, 9>>
  /\ text = Str(<<"j", "j", "$", "j">>)
  /\ ShapeDecode(output, model_filename, <<>>).text = Str(<<"J", "J", "$", "J">>)

(* C20: for the hints captcha_model_v1..v8, configured with (seq_len, key),  *)
(* and a single row of seq_len * len(CHAR_SETS[key]) elements, the text has  *)
(* seq_len characters, the i-th being the character of the set at the argmax *)
(* of the i-th run of len(CHAR_SETS[key]) elements, and it is the text of    *)
(* the call under every other reference, and under none.                     *)
C20_FlatSegmented ==
  \A v \in Versions :
    ( /\ pc # "call"
      /\ model_filename = FlatHint(v)
      /\ AsSingleRow(output)
      /\ Size(output) = MODEL_CONFIGS[v].seq_len * Len(CHAR_SETS[MODEL_CONFIGS[v].key]) )
    => LET L == MODEL_CONFIGS[v].seq_len
           V == CHAR_SETS[MODEL_CONFIGS[v].key]
       IN  /\ Returned /\ route = "flat"
           /\ Len(text) = L
           /\ \A i \in 1..L :
                text[i] = V[ArgMax(Slice(output, (i - 1) * Len(V), i * Len(V))) + 1]
           /\ \A e2 \in ShapeReferences :
                FlatDecode(output, model_filename, e2).text = text

C20_Witness ==
  /\ Returned
  /\ route = "flat"
  /\ model_filename = FlatHint(4)
  /\ expected_text = Str(<<"j", "9", "$", "j", "9", "$">>)
  /\ char_indices = <<0, 9, 36, 9, 0, 36>>
  /\ text = Str(<<"a", "j", "$", "j", "a", "$">>)

(* C21 as stated: under a configured hint captcha_model_v1..v8 a single row *)
(* is decoded by the flat branch, and a text returned, only if the row has   *)
(* seq_len * len(character set) elements.                                    *)
C21_Original ==
  (Returned /\ route = "flat") =>
    LET cfg == get_model_config(model_filename)
    IN  Size(output) = cfg.seq_len * Len(CHAR_SETS[cfg.key])

(* C24: when the variants of a 63- or 37-symbol character set are ranked     *)
(* against a reference, a variant text that differs from the reference has   *)
(* the score 10 * (positions below the shorter length where the characters   *)
(* are equal) + 5 if the lengths are equal, a text equal to it has 1000, and *)
(* the text returned is that of the first variant whose score is the         *)
(* largest.                                                                  *)
C24_VariantScoring ==
  (Returned /\ route = "variants") =>
    LET best == SetMin({k \in DOMAIN results :
                  \A j \in DOMAIN results : results[j].score <= results[k].score})
    IN  /\ Len(CHAR_SETS[CharSetKey(output, model_filename)]) \in {63, 37}
        /\ expected_text # <<>>
        /\ Len(results) = Len(charset_variants(CHAR_SETS[CharSetKey(output, model_filename)]))
        /\ \A k \in DOMAIN results :
             /\ results[k].text # expected_text =>
                  results[k].score = PositionalScore(results[k].text, expected_text)
             /\ results[k].text = expected_text => results[k].score = 1000
        /\ text = results[best].text

C24_Witness ==
  /\ Returned
  /\ route = "variants"
  /\ expected_text = Str(<<"j", "9", "$", "j", "9", "$">>)
  /\ char_indices = <<9, 9, 62, 62>>
  /\ results[1].text = Str(<<"j", "j", "$", "$">>) /\ results[1].score = 20
  /\ results[2].text = Str(<<"9", "9", "$", "$">>) /\ results[2].score = 20
  /\ text = results[1].text

(* C27: for every version k of v1..v8 and a single row of                   *)
(* seq_len * len(character set) elements, a call with no reference returns   *)
(* the same text under model_v<k>.onnx, where the row is reshaped and the    *)
(* argmax of its rows read in the character set, as under                    *)
(* captcha_model_v<k>.onnx, where the argmax of its runs is.                 *)
C27_RoutesAgree ==
  \A k \in Versions :
    ( /\ Returned
      /\ expected_text = <<>>
      /\ model_filename \in {FlatHint(k), ModelHint(k)}
      /\ AsSingleRow(output)
      /\ Size(output) = MODEL_CONFIGS[k].seq_len * Len(CHAR_SETS[MODEL_CONFIGS[k].key]) )
    => /\ route = IF model_filename = FlatHint(k) THEN "flat" ELSE "standard"
       /\ FlatDecode(output, FlatHint(k), <<>>).error = "none"
       /\ ShapeDecode(output, ModelHint(k), <<>>).error = "none"
       /\ text = FlatDecode(output, FlatHint(k), <<>>).text
       /\ text = ShapeDecode(output, ModelHint(k), <<>>).text

C27_Witness ==
  /\ Returned
  /\ expected_text = <<>>
  /\ model_filename = ModelHint(4)
  /\ route = "standard"
  /\ char_indices = <<0, 9, 36, 9, 0, 36>>
  /\ text = Str(<<"a", "j", "$", "j", "a", "$">>)
  /\ FlatDecode(output, FlatHint(4), <<>>).text = text

-----------------------------------------------------------------------------
(* The choice of the branch: every kind of hint with every kind of tensor *)

MaxBatch == 3

(* names in other cases, in a directory, with several version tags, with a  *)
(* version that is not configured, with a tokenizer name as a suffix only   *)
NamedHints ==
  { Str(<<"M","o","d","e","l",".","O","N","N","X">>),
    Str(<<"d","/","C","A","P","T","C","H","A",".","o","n","n","x">>),
    Str(<<"v","3","/","c","a","p","t","c","h","a",".","o","n","n","x">>),
    FlatHint(1) \o SlashModelOnnx,
    Str(<<"m","y","_","m","o","d","e","l",".","o","n","n","x">>),
    Str(<<"M","O","D","E","L","_","V","4",".","O","N","N","X">>),
    Str(<<"m","_","v","9",".","o","n","n","x">>),
    Str(<<"m","_","v","0",".","o","n","n","x">>),
    Str(<<"m","_","v","1","2",".","o","n","n","x">>),
    Str(<<"m","_","v","0","3",".","o","n","n","x">>),
    Str(<<"v","v","7",".","o","n","n","x">>),
    Str(<<"a","v","2","_","v","5",".","o","n","n","x">>),
    Str(<<"v","1","0","_","v","5",".","o","n","n","x">>),
    Str(<<"v","_","8","v",".","o","n","n","x">>) }

DetectHints ==
  CrnnHints \cup TokenizerHints \cup {OtherHint, FlatHint(1), ModelHint(2)}
    \cup NamedHints

DetectShapes ==
  {<<T, B, 34>> : T \in 1..MaxBatch, B \in 1..MaxBatch}
    \cup {<<1, 2, 95>>, <<1, 44>>, <<1, 378>>, <<2, 34>>, <<34>>, <<1, 1, 2, 34>>}

DetectReferences == {<<>>, Str(<<"3", "7">>)}

(* the largest score of every row of batch 0 at a, the second largest at b *)
InitDetect ==
  /\ model_filename \in DetectHints
  /\ \E shape \in DetectShapes, a \in {0, 3}, b \in {7, 12}, neg \in BOOLEAN :
       LET V == shape[Len(shape)]
           n == IF Len(shape) = 3 /\ shape[1] > shape[2] THEN shape[1] ELSE 1
       IN  output = TensorOf(shape, V, [r \in 1..n |-> a], [r \in 1..n |-> b], neg)
  /\ expected_text \in DetectReferences
  /\ Idle

NextDetect ==
  DecodeTokenizer \/ DecodeCrnn \/ DecodeFlatSegmented \/ InferIndices \/ ConvertIndices

SpecDetect == InitDetect /\ [][NextDetect]_vars

(* C16 as stated: a tensor is decoded by the CTC branch only if the hint     *)
(* names a crnn model, the tensor has rank 3 and time_steps > batch.         *)
C16_Original ==
  (Returned /\ route = "crnn") =>
    /\ IsCrnn(model_filename)
    /\ Len(output.shape) = 3
    /\ output.shape[1] > output.shape[2]

(* C16 amended: the CTC branch is taken only if the hint names a crnn model  *)
(* and the tensor has rank 3, and then whatever time_steps and batch are.    *)
(* With time_steps > batch, or with batch = 1 (time_steps <= batch           *)
(* included), all the hypotheses are built from one index per time step and  *)
(* a text is returned; with time_steps <= batch and batch >= 2 the call ends *)
(* in an error.                                                              *)
C16_CollapsingDetection ==
  /\ route = "crnn" => IsCrnn(model_filename) /\ Len(output.shape) = 3
  /\ ( /\ pc # "call"
       /\ IsCrnn(model_filename)
       /\ Len(output.shape) = 3 ) => route = "crnn"
  /\ route = "crnn" =>
       IF output.shape[1] > output.shape[2] \/ output.shape[2] = 1
       THEN /\ Returned
            /\ Len(char_indices) = output.shape[1]
            /\ Len(results) = 2 * Len(mappings_config)
       ELSE Raised /\ error = "TypeError"

C16_Witness ==
  /\ Returned
  /\ route = "crnn"
  /\ output.shape = <<1, 1, 34>>
  /\ char_indices = <<3>>
  /\ Greedy(1).text = Str(<<"2">>)
  /\ expected_text = <<>>
  /\ text = Str(<<"2">>)

(* some element of the whole tensor is negative *)
AnyNegative == \E p \in DOMAIN output.peaks : output.peaks[p] < 0

(* the argmax of the rows has been taken *)
IndicesTaken == pc \in {"indices", "done"}

(* C22 as stated: on every path the rows are softmax-normalised before the   *)
(* argmax iff some element of the whole tensor is negative.                  *)
C22_Original ==
  IndicesTaken => (normalised <=> AnyNegative)

(* C22 amended: on the tokenizer, CTC and flat paths and for a rank-3 tensor *)
(* or a single row on the shape-based path, the rows are softmax-normalised  *)
(* before the argmax iff some element of the whole tensor is negative, in    *)
(* whichever row it is; for a rank-2 tensor of several rows and for a tensor *)
(* of rank 1 or of rank 4 and more they never are.                           *)
C22_NormalisationDecision ==
  IndicesTaken =>
    IF \/ route \in {"tokenizer", "crnn", "flat"}
       \/ Len(output.shape) = 3
       \/ AsSingleRow(output)
    THEN normalised <=> AnyNegative
    ELSE ~normalised

C22_Witness ==
  /\ Returned
  /\ output.shape = <<2, 34>>
  /\ AnyNegative
  /\ ~normalised
  /\ char_indices = <<3, 0>>

Upper(s) == [i \in DOMAIN s |-> IF s[i] >= 97 /\ s[i] <= 122 THEN s[i] - 32 ELSE s[i]]

(* the digits of the first 'v' or 'V' of a name that a digit follows, <<>>   *)
(* if no 'v' is followed by a digit                                          *)
FirstTag(s) ==
  LET starts == {i \in 1..(Len(s) - 1) : s[i] \in {86, 118} /\ IsDigitChar(s[i + 1])}
      i0 == SetMin(starts)
      ends == {j \in (i0 + 1)..Len(s) :
                 /\ \A m \in (i0 + 1)..j : IsDigitChar(s[m])
                 /\ (j = Len(s) \/ ~IsDigitChar(s[j + 1]))}
  IN  IF starts = {} THEN <<>> ELSE SubSeq(s, i0 + 1, SetMin(ends))

(* a name that is, or ends in a directory separator and, model.onnx or      *)
(* captcha.onnx, in any case                                                *)
TokenizerName(s) ==
  \E n \in {ModelOnnx, CaptchaOnnx} :
    /\ Len(s) >= Len(n)
    /\ Lower(SubSeq(s, Len(s) - Len(n) + 1, Len(s))) = n
    /\ (Len(s) = Len(n) \/ s[Len(s) - Len(n)] = 47)

(* C25: the configuration found for a name does not depend on the case of    *)
(* its letters; a tokenizer name gives the marker, also when the name holds  *)
(* a version; any other name whose first version is v1..v8 gives the         *)
(* sequence length and character set configured for it; every other name     *)
(* gives (None, None).  The marker sends a rank-3 tensor to the tokenizer    *)
(* branch, (None, None) sends a single row to the inference from its size.   *)
C25_HintResolution ==
  pc # "call" =>
    LET cfg == get_model_config(model_filename)
        tag == FirstTag(model_filename)
    IN  /\ cfg = get_model_config(Lower(model_filename))
        /\ cfg = get_model_config(Upper(model_filename))
        /\ IF TokenizerName(model_filename)
           THEN /\ cfg.kind = "special"
                /\ Len(output.shape) = 3 => route = "tokenizer"
           ELSE IF Len(tag) = 1 /\ tag[1] \in 49..56
           THEN /\ cfg.kind = "config"
                /\ cfg.seq_len = MODEL_CONFIGS[tag[1] - 48].seq_len
                /\ cfg.key = MODEL_CONFIGS[tag[1] - 48].key
                /\ route # "tokenizer"
           ELSE /\ cfg.kind = "none"
                /\ route \notin {"tokenizer", "flat"}
                /\ (AsSingleRow(output) /\ Returned) =>
                     \E f \in Factorisations(Size(output)) :
                       Len(char_indices) = f[1]

C25_Witness ==
  /\ Returned
  /\ model_filename = Str(<<"v","3","/","c","a","p","t","c","h","a",".","o","n","n","x">>)
  /\ FirstTag(model_filename) = Str(<<"3">>)
  /\ get_model_config(model_filename).kind = "special"
  /\ route = "tokenizer"

====
